---- MODULE Spec2Model ----
(***************************************************************************)
(* Model of the dual traffic light controller, src/traffic_lights.ino.     *)
(*                                                                         *)
(* The device is a single-threaded Arduino sketch: setup() runs once and   *)
(* loop() is then called for ever.  One iteration of loop() is one action  *)
(* of the model, except that the T command blocks inside the iteration     *)
(* (runTestSequence calls delay()), so a diagnostic run is a sequence of   *)
(* actions, one per delay() of the routine.                                *)
(*                                                                         *)
(* Time: millis() is an unsigned counter of MillisMod = 2^TimerBits ms.    *)
(* An iteration of loop() starts 0 or TickMs milliseconds after the        *)
(* previous one ended, TickMs being the greatest common divisor of the     *)
(* polled durations, so every expiry instant is polled.  Serial lines are  *)
(* delivered whole (readStringUntil never times out on a partial line).    *)
(***************************************************************************)
EXTENDS Integers, Sequences, FiniteSets, TLC

\* ------------------------------------------------------------------------
\* Program constants (src/traffic_lights.ino:30-43)
RED_PIN_1 == 13
YELLOW_PIN_1 == 12
GREEN_PIN_1 == 11
RED_PIN_2 == 10
YELLOW_PIN_2 == 9
GREEN_PIN_2 == 8

GREEN_DURATION == 5000
YELLOW_DURATION == 2000
RED_DURATION == 5000
EMERGENCY_BLINK == 500

\* delay() arguments and blink count of runTestSequence
TEST_COLOUR_DELAY == 1000
TEST_OFF_DELAY == 500
TEST_BLINK_DELAY == 300
TEST_BLINKS == 3

\* ------------------------------------------------------------------------
\* Bounds of the model
TimerBits == 13
MaxTime == 20500
MaxCommands == 2
MaxBuffered == 1

MillisMod == 2 ^ TimerBits

RECURSIVE GCD(_, _)
GCD(a, b) == IF b = 0 THEN a ELSE GCD(b, a % b)

\* loop() is polled at every multiple of the durations it compares against
TickMs ==
  GCD(GCD(GREEN_DURATION, YELLOW_DURATION), GCD(RED_DURATION, EMERGENCY_BLINK))

\* ------------------------------------------------------------------------
\* Types
Modes == {"MANUAL", "AUTO", "EMERGENCY"}
States == {"RED", "YELLOW", "GREEN", "OFF"}
Pins == {RED_PIN_1, YELLOW_PIN_1, GREEN_PIN_1, RED_PIN_2, YELLOW_PIN_2, GREEN_PIN_2}
NoMode == "-"
NoState == "-"
NoTest == <<>>
NoCommand == <<"">>

\* ------------------------------------------------------------------------
\* Arduino String: a sequence of characters
LowerChars ==
  <<"a","b","c","d","e","f","g","h","i","j","k","l","m",
    "n","o","p","q","r","s","t","u","v","w","x","y","z">>
UpperChars ==
  <<"A","B","C","D","E","F","G","H","I","J","K","L","M",
    "N","O","P","Q","R","S","T","U","V","W","X","Y","Z">>

isspace(c) == c \in {" ", "\t", "\n", "\r", "\f"}

\* toupper leaving every character as it is
toupper_KeepsCase(c) == c

toupper(c) ==
  IF \E i \in 1..Len(LowerChars) : LowerChars[i] = c
  THEN UpperChars[CHOOSE i \in 1..Len(LowerChars) : LowerChars[i] = c]
  ELSE c

\* String::toUpperCase
toUpperCase(s) == [i \in 1..Len(s) |-> toupper(s[i])]

RECURSIVE trimLeft(_)
trimLeft(s) ==
  IF s # <<>> /\ isspace(Head(s)) THEN trimLeft(Tail(s)) ELSE s

RECURSIVE trimRight(_)
trimRight(s) ==
  IF s # <<>> /\ isspace(s[Len(s)]) THEN trimRight(SubSeq(s, 1, Len(s) - 1)) ELSE s

\* String::trim
trim(s) == trimRight(trimLeft(s))

\* The command literals processCommand compares against
CMD_A == <<"A">>
CMD_M == <<"M">>
CMD_E == <<"E">>
CMD_R1 == <<"R","1">>
CMD_Y1 == <<"Y","1">>
CMD_G1 == <<"G","1">>
CMD_R2 == <<"R","2">>
CMD_Y2 == <<"Y","2">>
CMD_G2 == <<"G","2">>
CMD_T == <<"T">>
CMD_OFF == <<"O","F","F">>
CMD_STATUS == <<"S","T","A","T","U","S">>

Grammar ==
  {CMD_A, CMD_M, CMD_E, CMD_R1, CMD_Y1, CMD_G1, CMD_R2, CMD_Y2, CMD_G2,
   CMD_T, CMD_OFF, CMD_STATUS}

\* Lines the serial peer sends (as returned by readStringUntil('\n'))
Lines ==
  Grammar \cup
  { <<"a">>, <<"t">>, <<" ","g","1","\r">>, <<"O","f","f">>, <<"s","t","a","t","u","s">>,
    <<>>, <<" ">>, <<"X">>, <<"G","3">> }

\* Lines of a serial peer that writes every command in lower case, and OFF
\* and STATUS in mixed case as well
Spellings ==
  { <<"a">>, <<"m">>, <<"e">>, <<"r","1">>, <<"y","1">>, <<"g","1">>,
    <<"r","2">>, <<"y","2">>, <<"g","2">>, <<"t">>, <<"o","f","f">>,
    <<"s","t","a","t","u","s">>, <<"O","f","f">>, <<"S","t","a","t","u","S">> }

\* loop() trims the line it read, processCommand upper-cases it
TrimOf == [raw \in Lines \cup Spellings |-> trim(raw)]
UpperOf == [l \in {trim(raw) : raw \in Lines \cup Spellings} |-> toUpperCase(l)]
\* ------------------------------------------------------------------------
\* State
VARIABLES
  currentMode, currentState1, currentState2, previousState,
  lastStateChange, currentStateDuration, emergencyBlinkState,
  pins,          \* digital outputs: pin number -> HIGH (TRUE) / LOW (FALSE)
  now,           \* millis()
  uptime,        \* milliseconds since reset, not wrapped (bounds the run)
  testStep,      \* 0: in loop(); k > 0: in the k-th delay() of runTestSequence
  savedMode, savedState1, savedState2, previousMode,  \* locals of the T branch
  out,           \* what the last action printed on Serial
  rx,            \* the serial receive buffer: lines received and not yet read
  changedAt,     \* ms since reset, not wrapped, when lastStateChange was last assigned
  ncmd,          \* lines read so far (bounds the run)
  lastCommand,   \* the upper-cased line the last action passed to processCommand, or NoCommand
  lastLine,      \* the trimmed line the last action passed to processCommand, or NoCommand
  beforeTest,    \* mode and light states when the running T was read, or NoTest
  sinceA         \* ms since the A command / reset while no other command came, or -1

vars ==
  <<currentMode, currentState1, currentState2, previousState,
    lastStateChange, currentStateDuration, emergencyBlinkState,
    pins, now, uptime, testStep,
    savedMode, savedState1, savedState2, previousMode, out, sinceA, ncmd, beforeTest, lastCommand, lastLine, rx, changedAt>>

\* The globals of the sketch as one record; the operators below are the
\* functions of the sketch, mapping the record before the call to the
\* record after it.
Dev ==
  [ currentMode |-> currentMode,
    currentState1 |-> currentState1,
    currentState2 |-> currentState2,
    previousState |-> previousState,
    lastStateChange |-> lastStateChange,
    currentStateDuration |-> currentStateDuration,
    emergencyBlinkState |-> emergencyBlinkState,
    pins |-> pins,
    out |-> <<>> ]

\* Serial.print / Serial.println of a literal, and of a String
Println(st, line) == [st EXCEPT !.out = Append(@, line)]
PrintlnString(st, s) == [st EXCEPT !.out = @ \o s]

digitalWrite(st, pin, level) == [st EXCEPT !.pins[pin] = level]

redPin(lightNumber) == IF lightNumber = 1 THEN RED_PIN_1 ELSE RED_PIN_2
yellowPin(lightNumber) == IF lightNumber = 1 THEN YELLOW_PIN_1 ELSE YELLOW_PIN_2
greenPin(lightNumber) == IF lightNumber = 1 THEN GREEN_PIN_1 ELSE GREEN_PIN_2

\* setLightState without the three LOW writes: the LED of `state` is
\* switched on and the others are left as they are
setLightState_NoClear(st, lightNumber, state) ==
  CASE state = "RED" -> digitalWrite(st, redPin(lightNumber), TRUE)
    [] state = "YELLOW" -> digitalWrite(st, yellowPin(lightNumber), TRUE)
    [] state = "GREEN" -> digitalWrite(st, greenPin(lightNumber), TRUE)
    [] OTHER -> st

\* setLightState: all three LEDs of the light off, then the one of `state` on
setLightState(st, lightNumber, state) ==
  LET off == digitalWrite(digitalWrite(digitalWrite(st,
                 redPin(lightNumber), FALSE),
                 yellowPin(lightNumber), FALSE),
                 greenPin(lightNumber), FALSE)
  IN CASE state = "RED" -> digitalWrite(off, redPin(lightNumber), TRUE)
       [] state = "YELLOW" -> digitalWrite(off, yellowPin(lightNumber), TRUE)
       [] state = "GREEN" -> digitalWrite(off, greenPin(lightNumber), TRUE)
       [] OTHER -> off

\* unsigned subtraction a - b of two millis() values
UnsignedSub(a, b) == (a - b) % MillisMod


\* ------------------------------------------------------------------------
\* printMode / printState: the line printed for a mode / a light state
printMode(st) ==
  Println(st, CASE st.currentMode = "MANUAL" -> "MANUAL"
                [] st.currentMode = "AUTO" -> "AUTOMATIC"
                [] st.currentMode = "EMERGENCY" -> "EMERGENCY")

printState(st, state) == Println(st, state)

\* printStatus restarting the cycle timer
printStatus_ResetsTimer(st, t) ==
  LET a == Println(Println(st, ""), "=== CURRENT STATUS ===")
      b == printMode(Println(a, "Mode: "))
      c == printState(Println(b, "Light 1: "), st.currentState1)
      d == printState(Println(c, "Light 2: "), st.currentState2)
      timeInState == UnsignedSub(t, st.lastStateChange)
      timeRemaining == UnsignedSub(st.currentStateDuration, timeInState)
      e == IF st.currentMode = "AUTO"
           THEN Println(Println(Println(d, "Time remaining: "),
                                ToString(timeRemaining \div 1000)), " seconds")
           ELSE d
  IN [Println(Println(e, "======================"), "")
      EXCEPT !.lastStateChange = t]

\* printStatus: t is the value millis() returns
printStatus(st, t) ==
  LET a == Println(Println(st, ""), "=== CURRENT STATUS ===")
      b == printMode(Println(a, "Mode: "))
      c == printState(Println(b, "Light 1: "), st.currentState1)
      d == printState(Println(c, "Light 2: "), st.currentState2)
      timeInState == UnsignedSub(t, st.lastStateChange)
      timeRemaining == UnsignedSub(st.currentStateDuration, timeInState)
      e == IF st.currentMode = "AUTO"
           THEN Println(Println(Println(d, "Time remaining: "),
                                ToString(timeRemaining \div 1000)), " seconds")
           ELSE d
  IN Println(Println(e, "======================"), "")

\* advanceLight1 stepping from GREEN to RED at once
advanceLight1_SkipsYellow(st) ==
  CASE st.currentState1 = "GREEN" ->
         Println([st EXCEPT !.currentState1 = "RED",
                            !.currentStateDuration = RED_DURATION],
                 "AUTO: Light 1 changed to RED")
    [] st.currentState1 = "YELLOW" ->
         Println([st EXCEPT !.currentState1 = "RED",
                            !.currentStateDuration = RED_DURATION],
                 "AUTO: Light 1 changed to RED")
    [] st.currentState1 = "RED" ->
         Println([st EXCEPT !.currentState1 = "GREEN",
                            !.currentStateDuration = GREEN_DURATION],
                 "AUTO: Light 1 changed to GREEN")
    [] st.currentState1 = "OFF" ->
         Println([st EXCEPT !.currentState1 = "RED",
                            !.currentStateDuration = RED_DURATION],
                 "AUTO: Light 1 changed to RED")

\* advanceLight1 leaving the active duration as it is
advanceLight1_KeepsDuration(st) ==
  CASE st.currentState1 = "GREEN" ->
         Println([st EXCEPT !.currentState1 = "YELLOW"],
                 "AUTO: Light 1 changed to YELLOW")
    [] st.currentState1 = "YELLOW" ->
         Println([st EXCEPT !.currentState1 = "RED"],
                 "AUTO: Light 1 changed to RED")
    [] st.currentState1 = "RED" ->
         Println([st EXCEPT !.currentState1 = "GREEN"],
                 "AUTO: Light 1 changed to GREEN")
    [] st.currentState1 = "OFF" ->
         Println([st EXCEPT !.currentState1 = "RED"],
                 "AUTO: Light 1 changed to RED")

\* advanceTrafficLight, first switch: light 1 steps
\* GREEN -> YELLOW -> RED -> GREEN and takes the duration of its new colour
advanceLight1(st) ==
  CASE st.currentState1 = "GREEN" ->
         Println([st EXCEPT !.currentState1 = "YELLOW",
                            !.currentStateDuration = YELLOW_DURATION],
                 "AUTO: Light 1 changed to YELLOW")
    [] st.currentState1 = "YELLOW" ->
         Println([st EXCEPT !.currentState1 = "RED",
                            !.currentStateDuration = RED_DURATION],
                 "AUTO: Light 1 changed to RED")
    [] st.currentState1 = "RED" ->
         Println([st EXCEPT !.currentState1 = "GREEN",
                            !.currentStateDuration = GREEN_DURATION],
                 "AUTO: Light 1 changed to GREEN")
    [] st.currentState1 = "OFF" ->
         Println([st EXCEPT !.currentState1 = "RED",
                            !.currentStateDuration = RED_DURATION],
                 "AUTO: Light 1 changed to RED")

\* deriveLight2 with the GREEN case left out: light 2 keeps its colour
\* when light 1 turns GREEN
deriveLight2_KeepsGreen(st) ==
  CASE st.currentState1 = "GREEN" -> st
    [] st.currentState1 = "YELLOW" ->
         Println([st EXCEPT !.currentState2 = "GREEN"],
                 "AUTO: Light 2 remains GREEN")
    [] st.currentState1 = "RED" ->
         Println([st EXCEPT !.currentState2 = "GREEN"],
                 "AUTO: Light 2 changed to GREEN")
    [] st.currentState1 = "OFF" ->
         [st EXCEPT !.currentState2 = "OFF"]

\* advanceTrafficLight, second switch: light 2 is derived from the new
\* colour of light 1
deriveLight2(st) ==
  CASE st.currentState1 = "GREEN" ->
         Println([st EXCEPT !.currentState2 = "RED"],
                 "AUTO: Light 2 changed to RED")
    [] st.currentState1 = "YELLOW" ->
         Println([st EXCEPT !.currentState2 = "GREEN"],
                 "AUTO: Light 2 remains GREEN")
    [] st.currentState1 = "RED" ->
         Println([st EXCEPT !.currentState2 = "GREEN"],
                 "AUTO: Light 2 changed to GREEN")
    [] st.currentState1 = "OFF" ->
         [st EXCEPT !.currentState2 = "OFF"]

advanceTrafficLight(st) ==
  LET s0 == [st EXCEPT !.previousState = st.currentState1]
      s2 == deriveLight2(advanceLight1(s0))
  IN setLightState(setLightState(s2, 1, s2.currentState1), 2, s2.currentState2)

\* The six per-light branches of processCommand share one shape
toManual(st) ==
  IF st.currentMode # "MANUAL"
  THEN Println([st EXCEPT !.currentMode = "MANUAL"], "Switched to MANUAL mode")
  ELSE st

manualLight1(st, state) ==
  Println(
    [setLightState(toManual(st), 1, state) EXCEPT !.currentState1 = state],
    CASE state = "RED" -> "Light 1: RED"
      [] state = "YELLOW" -> "Light 1: YELLOW"
      [] state = "GREEN" -> "Light 1: GREEN")

\* manualLight2 writing the outputs of light 1
manualLight2_WrongLight(st, state) ==
  Println(
    [setLightState(toManual(st), 1, state) EXCEPT !.currentState2 = state],
    CASE state = "RED" -> "Light 2: RED"
      [] state = "YELLOW" -> "Light 2: YELLOW"
      [] state = "GREEN" -> "Light 2: GREEN")

manualLight2(st, state) ==
  Println(
    [setLightState(toManual(st), 2, state) EXCEPT !.currentState2 = state],
    CASE state = "RED" -> "Light 2: RED"
      [] state = "YELLOW" -> "Light 2: YELLOW"
      [] state = "GREEN" -> "Light 2: GREEN")

\* The branches of processCommand; t is the value millis() returns
\* commandA without the reset of currentStateDuration
commandA_KeepsDuration(st, t) ==
  Println([setLightState(setLightState(
             [st EXCEPT !.currentMode = "AUTO",
                        !.currentState1 = "RED",
                        !.currentState2 = "GREEN"],
             1, "RED"), 2, "GREEN")
           EXCEPT !.lastStateChange = t],
          "Mode: AUTOMATIC - Traffic lights will cycle automatically")

commandA(st, t) ==
  Println([setLightState(setLightState(
             [st EXCEPT !.currentMode = "AUTO",
                        !.currentState1 = "RED",
                        !.currentState2 = "GREEN"],
             1, "RED"), 2, "GREEN")
           EXCEPT !.lastStateChange = t,
                  !.currentStateDuration = RED_DURATION],
          "Mode: AUTOMATIC - Traffic lights will cycle automatically")

\* commandM switching both lights off as well
commandM_AllOff(st) ==
  Println(setLightState(setLightState(
            [st EXCEPT !.currentMode = "MANUAL"], 1, "OFF"), 2, "OFF"),
          "Mode: MANUAL - Use R1/Y1/G1 and R2/Y2/G2 commands to control lights")

commandM(st) ==
  Println([st EXCEPT !.currentMode = "MANUAL"],
          "Mode: MANUAL - Use R1/Y1/G1 and R2/Y2/G2 commands to control lights")

commandE(st, t) ==
  Println([setLightState(setLightState(
             [st EXCEPT !.currentMode = "EMERGENCY"], 1, "OFF"), 2, "OFF")
           EXCEPT !.lastStateChange = t,
                  !.emergencyBlinkState = FALSE],
          "Mode: EMERGENCY - Both lights flashing red")

\* commandOFF leaving the mode as it is
commandOFF_KeepsMode(st) ==
  Println(Println(
    [setLightState(setLightState(st, 1, "OFF"), 2, "OFF")
     EXCEPT !.currentState1 = "OFF", !.currentState2 = "OFF"],
    "Mode: MANUAL"), "All Lights: OFF")

commandOFF(st) ==
  Println(Println(
    [setLightState(setLightState(
       [st EXCEPT !.currentMode = "MANUAL"], 1, "OFF"), 2, "OFF")
     EXCEPT !.currentState1 = "OFF", !.currentState2 = "OFF"],
    "Mode: MANUAL"), "All Lights: OFF")

\* unknownCommand falling back to MANUAL mode
unknownCommand_ToManual(st, command) ==
  Println(PrintlnString(Println([st EXCEPT !.currentMode = "MANUAL"],
                                "Error: Unknown command: "), command),
          "Valid commands: A, M, E, R1/Y1/G1, R2/Y2/G2, T, OFF, STATUS")

unknownCommand(st, command) ==
  Println(PrintlnString(Println(st, "Error: Unknown command: "), command),
          "Valid commands: A, M, E, R1/Y1/G1, R2/Y2/G2, T, OFF, STATUS")

\* processCommand, every branch but T (the T branch blocks in
\* runTestSequence and is the actions TestStart .. TestFinish).
\* `line` is the trimmed line, t the value millis() returns.
processCommand(st, line, t) ==
  LET command == UpperOf[line] IN
  IF Len(line) < 1 THEN st
  ELSE CASE command = CMD_A -> commandA(st, t)
         [] command = CMD_M -> commandM(st)
         [] command = CMD_E -> commandE(st, t)
         [] command = CMD_R1 -> manualLight1(st, "RED")
         [] command = CMD_Y1 -> manualLight1(st, "YELLOW")
         [] command = CMD_G1 -> manualLight1(st, "GREEN")
         [] command = CMD_R2 -> manualLight2(st, "RED")
         [] command = CMD_Y2 -> manualLight2(st, "YELLOW")
         [] command = CMD_G2 -> manualLight2(st, "GREEN")
         [] command = CMD_T -> st
         [] command = CMD_OFF -> commandOFF(st)
         [] command = CMD_STATUS -> printStatus(st, t)
         [] OTHER -> unknownCommand(st, command)

\* expired with > for >=
expired_Strict(t, last, duration) == UnsignedSub(t, last) > duration

\* expired comparing the absolute timestamps
expired_Absolute(t, last, duration) == t >= last + duration

\* The comparison of both timing checks: currentTime - lastStateChange >= duration
expired(t, last, duration) == UnsignedSub(t, last) >= duration

\* cycling whenever the mode is not EMERGENCY
cycling_NotEmergency(st) == st.currentMode # "EMERGENCY"

\* The mode test of the AUTO branch of loop()
cycling(st) == st.currentMode = "AUTO"

\* The timing checks of loop() (after the serial poll): currentTime = t
loopTiming(st, t) ==
  IF cycling(st)
  THEN IF expired(t, st.lastStateChange, st.currentStateDuration)
       THEN [advanceTrafficLight(st) EXCEPT !.lastStateChange = t]
       ELSE st
  ELSE IF st.currentMode = "EMERGENCY"
  THEN IF expired(t, st.lastStateChange, EMERGENCY_BLINK)
       THEN LET b == ~st.emergencyBlinkState
                s == [st EXCEPT !.emergencyBlinkState = b]
            IN [digitalWrite(digitalWrite(s, RED_PIN_1, b), RED_PIN_2, b)
                EXCEPT !.lastStateChange = t]
       ELSE st
  ELSE st

\* ------------------------------------------------------------------------
\* Actions

\* Write the record of globals back to the variables
Commit(st) ==
  /\ currentMode' = st.currentMode
  /\ currentState1' = st.currentState1
  /\ currentState2' = st.currentState2
  /\ previousState' = st.previousState
  /\ lastStateChange' = st.lastStateChange
  /\ currentStateDuration' = st.currentStateDuration
  /\ emergencyBlinkState' = st.emergencyBlinkState
  /\ pins' = st.pins
  /\ out' = st.out
  /\ changedAt' = IF st.lastStateChange # lastStateChange THEN uptime' ELSE changedAt

\* d milliseconds pass
Advance(d) ==
  /\ uptime + d <= MaxTime
  /\ uptime' = uptime + d
  /\ now' = (now + d) % MillisMod

Banner ==
  << "=================================", "Dual Traffic Light System Ready",
     "=================================", "Mode: AUTOMATIC",
     "Light 1 Pins: Red=13, Yellow=12, Green=11",
     "Light 2 Pins: Red=10, Yellow=9, Green=8", "", "Commands:",
     "  A - Automatic cycling mode", "  M - Manual control mode",
     "  E - Emergency mode (flashing red)",
     "  R1/Y1/G1 - Set Light 1 to Red/Yellow/Green (manual)",
     "  R2/Y2/G2 - Set Light 2 to Red/Yellow/Green (manual)",
     "  T - Test sequence", "  OFF - All lights off",
     "  STATUS - Show current status",
     "=================================", "" >>

\* The state after the initialisers of the globals and setup()
Init ==
  /\ currentMode = "AUTO"
  /\ currentState1 = "RED"
  /\ currentState2 = "GREEN"
  /\ previousState = "OFF"
  /\ lastStateChange = 0
  /\ currentStateDuration = RED_DURATION
  /\ emergencyBlinkState = FALSE
  /\ pins = [p \in Pins |-> p \in {RED_PIN_1, GREEN_PIN_2}]
  /\ now = 0
  /\ uptime = 0
  /\ testStep = 0
  /\ savedMode = NoMode
  /\ savedState1 = NoState
  /\ savedState2 = NoState
  /\ previousMode = NoMode
  /\ out = Banner
  /\ sinceA = 0
  /\ ncmd = 0
  /\ beforeTest = NoTest
  /\ lastCommand = NoCommand
  /\ lastLine = NoCommand
  /\ rx = <<>>
  /\ changedAt = 0

NoLocals ==
  /\ beforeTest' = NoTest
  /\ savedMode' = NoMode
  /\ savedState1' = NoState
  /\ savedState2' = NoState
  /\ previousMode' = NoMode

\* The receive buffer of the serial port: the receive interrupt appends
\* what arrives, Serial.available() counts what is waiting
Serial_available(buf) == Len(buf)

\* Serial_receive losing the line
Serial_receive_Drops(buf, raw) == buf

Serial_receive(buf, raw) == Append(buf, raw)

\* loop() reads `raw`: the line waiting in the receive buffer, or, the
\* buffer being empty, a line that has arrived since the last iteration
ReadLine(raw) ==
  IF Serial_available(rx) > 0
  THEN /\ raw = Head(rx)
       /\ rx' = Tail(rx)
       /\ ncmd' = ncmd
  ELSE /\ ncmd < MaxCommands
       /\ ncmd' = ncmd + 1
       /\ rx' = rx

\* An iteration of loop() with nothing on the serial port
LoopIdle(d) ==
  /\ testStep = 0
  /\ Serial_available(rx) = 0
  /\ Advance(d)
  /\ \E st \in {loopTiming(Dev, now')} : Commit(st)
  /\ sinceA' = IF sinceA = -1 THEN -1 ELSE sinceA + d
  /\ NoLocals
  /\ lastCommand' = NoCommand
  /\ lastLine' = NoCommand
  /\ UNCHANGED <<testStep, ncmd, rx>>

\* LoopCommand with the timing checks before the serial poll
LoopCommand_TimingFirst(raw, d) ==
  LET line == TrimOf[raw] IN
  /\ testStep = 0
  /\ UpperOf[line] # CMD_T
  /\ ReadLine(raw)
  /\ Advance(d)
  /\ \E st \in {processCommand(loopTiming(Dev, now'), line, now')} : Commit(st)
  /\ sinceA' = IF Len(line) < 1 THEN (IF sinceA = -1 THEN -1 ELSE sinceA + d)
               ELSE IF UpperOf[line] = CMD_A THEN 0
               ELSE -1
  /\ NoLocals
  /\ lastCommand' = UpperOf[line]
  /\ lastLine' = line
  /\ UNCHANGED testStep

\* An iteration of loop() that reads `raw` from the serial port; every
\* command but T
LoopCommand(raw, d) ==
  LET line == TrimOf[raw] IN
  /\ testStep = 0
  /\ UpperOf[line] # CMD_T
  /\ ReadLine(raw)
  /\ Advance(d)
  /\ \E st \in {loopTiming(processCommand(Dev, line, now'), now')} : Commit(st)
  /\ sinceA' = IF Len(line) < 1 THEN (IF sinceA = -1 THEN -1 ELSE sinceA + d)
               ELSE IF UpperOf[line] = CMD_A THEN 0
               ELSE -1
  /\ NoLocals
  /\ lastCommand' = UpperOf[line]
  /\ lastLine' = line
  /\ UNCHANGED testStep


\* ------------------------------------------------------------------------
\* The T command: processCommand saves the mode, runTestSequence saves the
\* mode and both light states and blocks in delay() after each step.

allPins(st, level) ==
  digitalWrite(digitalWrite(digitalWrite(digitalWrite(digitalWrite(digitalWrite(st,
    RED_PIN_1, level), YELLOW_PIN_1, level), GREEN_PIN_1, level),
    RED_PIN_2, level), YELLOW_PIN_2, level), GREEN_PIN_2, level)

\* the k-th step of the colour walk: light and colour shown
TestLight(k) == IF k <= 3 THEN 1 ELSE 2
TestColour(k) ==
  CASE k \in {1, 4} -> "RED" [] k \in {2, 5} -> "YELLOW" [] k \in {3, 6} -> "GREEN"

\* the line printed before it
TestText(k) ==
  CASE k = 1 -> "  Testing Light 1 - RED (Pin 13)"
    [] k = 2 -> "  Testing Light 1 - YELLOW (Pin 12)"
    [] k = 3 -> "  Testing Light 1 - GREEN (Pin 11)"
    [] k = 4 -> "  Testing Light 2 - RED (Pin 10)"
    [] k = 5 -> "  Testing Light 2 - YELLOW (Pin 9)"
    [] k = 6 -> "  Testing Light 2 - GREEN (Pin 8)"

ColourSteps == 6
AllOffStep == ColourSteps + 1
LastStep == AllOffStep + 2 * TEST_BLINKS
\* the time runTestSequence spends in delay()
TestDuration ==
  ColourSteps * TEST_COLOUR_DELAY + TEST_OFF_DELAY + 2 * TEST_BLINKS * TEST_BLINK_DELAY

\* restoreState with light 2 restored from the saved state of light 1
restoreState_FromLight1(st, mode, state1, state2, t) ==
  LET r == [st EXCEPT !.currentMode = mode,
                      !.currentState1 = state1,
                      !.currentState2 = state1]
      w == [setLightState(setLightState(r, 1, r.currentState1), 2, r.currentState2)
            EXCEPT !.lastStateChange = t]
  IN printState(Println(printState(Println(w,
       "Restored Light 1 to: "), w.currentState1),
       "Restored Light 2 to: "), w.currentState2)

\* restoreState leaving the cycle timer where it was
restoreState_KeepsTimer(st, mode, state1, state2, t) ==
  LET r == [st EXCEPT !.currentMode = mode,
                      !.currentState1 = state1,
                      !.currentState2 = state2]
      w == setLightState(setLightState(r, 1, r.currentState1), 2, r.currentState2)
  IN printState(Println(printState(Println(w,
       "Restored Light 1 to: "), w.currentState1),
       "Restored Light 2 to: "), w.currentState2)

\* the restoring tail of runTestSequence; t is the value millis() returns
restoreState(st, mode, state1, state2, t) ==
  LET r == [st EXCEPT !.currentMode = mode,
                      !.currentState1 = state1,
                      !.currentState2 = state2]
      w == [setLightState(setLightState(r, 1, r.currentState1), 2, r.currentState2)
            EXCEPT !.lastStateChange = t]
  IN printState(Println(printState(Println(w,
       "Restored Light 1 to: "), w.currentState1),
       "Restored Light 2 to: "), w.currentState2)

\* loop() reads T: locals saved, first test step shown, first delay() entered
\* (a run is bounded by MaxTime: T is read while a whole routine fits in)
TestStart(raw, d) ==
  /\ testStep = 0
  /\ UpperOf[TrimOf[raw]] = CMD_T
  /\ uptime + d + TestDuration <= MaxTime
  /\ ReadLine(raw)
  /\ Advance(d)
  /\ previousMode' = currentMode
  /\ beforeTest' = <<currentMode, currentState1, currentState2>>
  /\ savedMode' = currentMode
  /\ savedState1' = currentState1
  /\ savedState2' = currentState2
  /\ \E st \in {setLightState(
         Println(Println(Println(Dev, ""), "=== RUNNING TEST SEQUENCE ==="),
                 TestText(1)),
         TestLight(1), TestColour(1))} : Commit(st)
  /\ testStep' = 1
  /\ sinceA' = -1
  /\ lastCommand' = CMD_T
  /\ lastLine' = TrimOf[raw]

\* delay(1000) ends, the next colour is shown
TestNextColour ==
  /\ testStep \in 1..(ColourSteps - 1)
  /\ Advance(TEST_COLOUR_DELAY)
  /\ \E st \in {setLightState(Println(Dev, TestText(testStep + 1)),
                   TestLight(testStep + 1), TestColour(testStep + 1))} : Commit(st)
  /\ testStep' = testStep + 1
  /\ lastLine' = NoCommand
  /\ UNCHANGED <<savedMode, savedState1, savedState2, previousMode, sinceA, ncmd, beforeTest, lastCommand, rx>>

\* delay(1000) after the last colour ends, both lights are switched off
TestAllOff ==
  /\ testStep = ColourSteps
  /\ Advance(TEST_COLOUR_DELAY)
  /\ \E st \in {setLightState(setLightState(Println(Dev, "  All lights OFF"),
                                 1, "OFF"), 2, "OFF")} : Commit(st)
  /\ testStep' = AllOffStep
  /\ lastLine' = NoCommand
  /\ UNCHANGED <<savedMode, savedState1, savedState2, previousMode, sinceA, ncmd, beforeTest, lastCommand, rx>>

\* i-th pass of the blink loop, first half: all six outputs HIGH
TestBlinkOn ==
  /\ testStep >= AllOffStep
  /\ testStep < LastStep
  /\ (testStep - AllOffStep) % 2 = 0
  /\ Advance(IF testStep = AllOffStep THEN TEST_OFF_DELAY ELSE TEST_BLINK_DELAY)
  /\ \E st \in {allPins(IF testStep = AllOffStep
                          THEN Println(Dev, "  Blinking all lights together (3x)")
                          ELSE Dev, TRUE)} : Commit(st)
  /\ testStep' = testStep + 1
  /\ lastLine' = NoCommand
  /\ UNCHANGED <<savedMode, savedState1, savedState2, previousMode, sinceA, ncmd, beforeTest, lastCommand, rx>>

\* TestBlinkOff with a blink loop that does not count its passes
TestBlinkOff_LoopsForever ==
  /\ testStep > AllOffStep
  /\ testStep < LastStep
  /\ (testStep - AllOffStep) % 2 = 1
  /\ Advance(TEST_BLINK_DELAY)
  /\ \E st \in {allPins(Dev, FALSE)} : Commit(st)
  /\ testStep' = testStep - 1
  /\ lastLine' = NoCommand
  /\ UNCHANGED <<savedMode, savedState1, savedState2, previousMode, sinceA, ncmd, beforeTest, lastCommand, rx>>

\* i-th pass of the blink loop, second half: all six outputs LOW
TestBlinkOff ==
  /\ testStep > AllOffStep
  /\ testStep < LastStep
  /\ (testStep - AllOffStep) % 2 = 1
  /\ Advance(TEST_BLINK_DELAY)
  /\ \E st \in {allPins(Dev, FALSE)} : Commit(st)
  /\ testStep' = testStep + 1
  /\ lastLine' = NoCommand
  /\ UNCHANGED <<savedMode, savedState1, savedState2, previousMode, sinceA, ncmd, beforeTest, lastCommand, rx>>

\* Lines the serial peer sends while runTestSequence is running
LinesInTest == {CMD_G2, CMD_OFF}

\* A line arrives while the sketch is blocked in a delay() of
\* runTestSequence: the receive interrupt stores it, nothing reads it
TestReceive(raw) ==
  /\ testStep # 0
  /\ Serial_available(rx) < MaxBuffered
  /\ ncmd < MaxCommands
  /\ ncmd' = ncmd + 1
  /\ rx' = Serial_receive(rx, raw)
  /\ UNCHANGED <<currentMode, currentState1, currentState2, previousState,
                 lastStateChange, currentStateDuration, emergencyBlinkState,
                 pins, now, uptime, testStep, savedMode, savedState1,
                 savedState2, previousMode, out, sinceA, beforeTest,
                 lastCommand, lastLine, changedAt>>

\* The last delay(300) ends: runTestSequence restores and returns, the T
\* branch of processCommand restores the mode, loop() does its timing checks
TestFinish ==
  /\ testStep = LastStep
  /\ Advance(TEST_BLINK_DELAY)
  /\ LET a == Println(Println(Dev, "=== TEST COMPLETE ==="), "")
         b == restoreState(a, savedMode, savedState1, savedState2, now')
         c == printMode(Println([b EXCEPT !.currentMode = previousMode],
                                "Restored mode: "))
     IN \E st \in {loopTiming(c, now')} : Commit(st)
  /\ testStep' = 0
  /\ NoLocals
  /\ lastCommand' = NoCommand
  /\ lastLine' = NoCommand
  /\ UNCHANGED <<sinceA, ncmd, rx>>

Next ==
  \/ \E d \in {0, TickMs} : LoopIdle(d)
  \/ \E raw \in Lines, d \in {0, TickMs} : LoopCommand(raw, d)
  \/ \E raw \in Lines, d \in {0, TickMs} : TestStart(raw, d)
  \/ TestNextColour
  \/ TestAllOff
  \/ TestBlinkOn
  \/ TestBlinkOff
  \/ TestFinish
  \/ \E raw \in LinesInTest : TestReceive(raw)

Spec == Init /\ [][Next]_vars

\* ------------------------------------------------------------------------
\* The device with a serial peer that writes in lower and mixed case, and
\* is silent while runTestSequence is running
SpellingNext ==
  \/ \E d \in {0, TickMs} : LoopIdle(d)
  \/ \E raw \in Spellings, d \in {0, TickMs} : LoopCommand(raw, d)
  \/ \E raw \in Spellings, d \in {0, TickMs} : TestStart(raw, d)
  \/ TestNextColour
  \/ TestAllOff
  \/ TestBlinkOn
  \/ TestBlinkOff
  \/ TestFinish

SpellingSpec == Init /\ [][SpellingNext]_vars

\* ------------------------------------------------------------------------
\* The device with a serial peer that changes the mode and starts the
\* diagnostic routine, and writes while the routine is running
LinesOfTestPeer == {CMD_M, CMD_E, CMD_T} \cup LinesInTest

TestNext ==
  \/ \E d \in {0, TickMs} : LoopIdle(d)
  \/ \E raw \in LinesOfTestPeer, d \in {0, TickMs} : LoopCommand(raw, d)
  \/ \E raw \in LinesOfTestPeer, d \in {0, TickMs} : TestStart(raw, d)
  \/ TestNextColour
  \/ TestAllOff
  \/ TestBlinkOn
  \/ TestBlinkOff
  \/ TestFinish
  \/ \E raw \in LinesInTest : TestReceive(raw)

\* delay() returns when its time has passed: a routine that has started
\* keeps taking its next step
TestSpec ==
  /\ Init
  /\ [][TestNext]_vars
  /\ WF_vars(TestNextColour)
  /\ WF_vars(TestAllOff)
  /\ WF_vars(TestBlinkOn)
  /\ WF_vars(TestBlinkOff)
  /\ WF_vars(TestFinish)

\* ------------------------------------------------------------------------
\* The device with a serial peer whose lines take time to arrive:
\* readStringUntil blocks until the terminator is there, at most for the
\* timeout of the stream (setup() leaves it at its default), and the
\* iteration goes on with processCommand and the timing checks after that.
SERIAL_TIMEOUT == 1000
ReadTimes == {0, TickMs, SERIAL_TIMEOUT}
LinesOfSlowPeer == {CMD_STATUS, CMD_A, CMD_M, CMD_T}

SlowReadNext ==
  \/ \E d \in {0, TickMs} : LoopIdle(d)
  \/ \E raw \in LinesOfSlowPeer, d \in ReadTimes : LoopCommand(raw, d)
  \/ \E raw \in LinesOfSlowPeer, d \in ReadTimes : TestStart(raw, d)
  \/ TestNextColour
  \/ TestAllOff
  \/ TestBlinkOn
  \/ TestBlinkOff
  \/ TestFinish

SlowReadSpec == Init /\ [][SlowReadNext]_vars

\* ------------------------------------------------------------------------
\* The device left alone: no line ever arrives and the run has no end.
\* An iteration of loop() without input, d ms after the previous one;
\* millis() advances and wraps, the ms since reset are not counted.
LoopForever(d) ==
  /\ testStep = 0
  /\ Serial_available(rx) = 0
  /\ now' = (now + d) % MillisMod
  /\ uptime' = uptime
  /\ \E st \in {loopTiming(Dev, now')} : Commit(st)
  /\ sinceA' = -1
  /\ NoLocals
  /\ lastCommand' = NoCommand
  /\ lastLine' = NoCommand
  /\ UNCHANGED <<testStep, ncmd, rx>>

AutoNext == \E d \in {0, TickMs} : LoopForever(d)

\* loop() is called again after it returns and the timer interrupt keeps
\* millis() counting: iterations TickMs apart keep happening
AutoSpec == Init /\ [][AutoNext]_vars /\ WF_vars(LoopForever(TickMs))

TypeOK ==
  /\ currentMode \in Modes
  /\ currentState1 \in States
  /\ currentState2 \in States
  /\ previousState \in States
  /\ lastStateChange \in 0..(MillisMod - 1)
  /\ currentStateDuration \in {GREEN_DURATION, YELLOW_DURATION, RED_DURATION}
  /\ emergencyBlinkState \in BOOLEAN
  /\ pins \in [Pins -> BOOLEAN]
  /\ now \in 0..(MillisMod - 1)
  /\ uptime \in 0..MaxTime
  /\ testStep \in 0..LastStep
  /\ rx \in Seq(LinesInTest)
  /\ Len(rx) <= MaxBuffered
  /\ changedAt \in 0..uptime


\* ------------------------------------------------------------------------
\* Vocabulary of the properties

Elapsed == UnsignedSub(now, lastStateChange)
Printed(text) == \E i \in 1..Len(out) : out[i] = text
LightPins(lightNumber) ==
  {redPin(lightNumber), yellowPin(lightNumber), greenPin(lightNumber)}
\* the LEDs lit on a light showing `state`
PinsOf(lightNumber, state) ==
  CASE state = "RED" -> {redPin(lightNumber)}
    [] state = "YELLOW" -> {yellowPin(lightNumber)}
    [] state = "GREEN" -> {greenPin(lightNumber)}
    [] OTHER -> {}
Shows(lightNumber, state) ==
  \A p \in LightPins(lightNumber) : pins[p] <=> p \in PinsOf(lightNumber, state)
CyclePeriod == RED_DURATION + GREEN_DURATION + YELLOW_DURATION
Ticks == {0, TickMs}

\* ------------------------------------------------------------------------
\* C1: whenever the mode is AUTO the recorded light states are in opposite
\* phase: light 2 is GREEN while light 1 is RED or YELLOW, light 2 is RED
\* while light 1 is GREEN, and the two are never both GREEN.
C1_OppositePhase ==
  currentMode = "AUTO" =>
    /\ currentState1 \in {"RED", "YELLOW"} => currentState2 = "GREEN"
    /\ currentState1 = "GREEN" => currentState2 = "RED"
    /\ ~(currentState1 = "GREEN" /\ currentState2 = "GREEN")

\* AUTO, light 1 GREEN and light 2 RED, just restored by a diagnostic run
C1_Witness ==
  /\ currentMode = "AUTO"
  /\ testStep = 0
  /\ Printed("Restored mode: ")
  /\ currentState1 = "GREEN"
  /\ currentState2 = "RED"

\* C2 as stated: the GREEN outputs of the two lights are never both lit,
\* in any mode and at any point of the diagnostic routine.
C2_NeverBothGreenLit ==
  ~(pins[GREEN_PIN_1] /\ pins[GREEN_PIN_2])

\* C2 as amended: in AUTO mode, outside the diagnostic routine, the GREEN
\* outputs of the two lights are never both lit.
C2_AutoNeverBothGreenLit ==
  (currentMode = "AUTO" /\ testStep = 0) =>
    ~(pins[GREEN_PIN_1] /\ pins[GREEN_PIN_2])

\* AUTO after the first expiry: light 1 shows GREEN, the green of light 2 is off
C2_Witness ==
  /\ currentMode = "AUTO"
  /\ testStep = 0
  /\ previousState = "RED"
  /\ pins[GREEN_PIN_1]
  /\ ~pins[GREEN_PIN_2]

\* C3: while AUTO runs undisturbed since the A command (or since reset),
\* the colours are a function of the time since then: RED/GREEN for the
\* first 5000 ms of each 12000 ms period, GREEN/RED for the next 5000 ms,
\* YELLOW/GREEN for the last 2000 ms; the active duration is that of the
\* colour of light 1 and the cycle timer was restarted at the last expiry.
C3_AutoCycleTiming ==
  sinceA # -1 =>
    LET p == sinceA % CyclePeriod IN
    /\ currentMode = "AUTO"
    /\ testStep = 0
    /\ Shows(1, currentState1)
    /\ Shows(2, currentState2)
    /\ IF p < RED_DURATION
       THEN /\ currentState1 = "RED"
            /\ currentState2 = "GREEN"
            /\ currentStateDuration = RED_DURATION
            /\ Elapsed = p
       ELSE IF p < RED_DURATION + GREEN_DURATION
       THEN /\ currentState1 = "GREEN"
            /\ currentState2 = "RED"
            /\ currentStateDuration = GREEN_DURATION
            /\ Elapsed = p - RED_DURATION
       ELSE /\ currentState1 = "YELLOW"
            /\ currentState2 = "GREEN"
            /\ currentStateDuration = YELLOW_DURATION
            /\ Elapsed = p - RED_DURATION - GREEN_DURATION

\* 12000 ms after an A command that came after reset: back to RED/GREEN
C3_Witness ==
  /\ sinceA = CyclePeriod
  /\ uptime > sinceA
  /\ currentState1 = "RED"
  /\ currentState2 = "GREEN"
  /\ previousState = "YELLOW"

\* C4: a per-light command read while the mode is not MANUAL leaves the
\* mode MANUAL, the addressed light recorded and shown in the requested
\* colour, and the recorded state and the three outputs of the other light
\* as they were.
PerLightCommands == {CMD_R1, CMD_Y1, CMD_G1, CMD_R2, CMD_Y2, CMD_G2}
RequestedLight(command) == IF command[2] = "1" THEN 1 ELSE 2
RequestedColour(command) ==
  CASE command[1] = "R" -> "RED"
    [] command[1] = "Y" -> "YELLOW"
    [] command[1] = "G" -> "GREEN"

C4_PerLightCommand ==
  [][ (currentMode # "MANUAL" /\ lastCommand' \in PerLightCommands) =>
        LET light == RequestedLight(lastCommand')
            colour == RequestedColour(lastCommand')
            other == 3 - light
        IN /\ currentMode' = "MANUAL"
           /\ (IF light = 1 THEN currentState1' ELSE currentState2') = colour
           /\ \A p \in LightPins(light) : pins'[p] <=> p \in PinsOf(light, colour)
           /\ IF light = 1 THEN currentState2' = currentState2
                           ELSE currentState1' = currentState1
           /\ \A p \in LightPins(other) : pins'[p] = pins[p]
    ]_vars

\* R1 read in AUTO: MANUAL, light 1 RED, light 2 still GREEN as AUTO set it
C4_Witness ==
  /\ lastCommand = CMD_R1
  /\ out = <<"Switched to MANUAL mode", "Light 1: RED">>
  /\ currentMode = "MANUAL"
  /\ currentState1 = "RED"
  /\ currentState2 = "GREEN"
  /\ pins[GREEN_PIN_2]

\* C5: when the diagnostic routine completes, the mode and both recorded
\* light states are those in effect when T was read.
C5_TestRestores ==
  [][ (testStep = LastStep /\ testStep' = 0) =>
        <<currentMode', currentState1', currentState2'>> = beforeTest ]_vars

\* a diagnostic run has just completed in MANUAL with light 1 YELLOW
C5_Witness ==
  /\ testStep = 0
  /\ Printed("Restored mode: ")
  /\ currentMode = "MANUAL"
  /\ currentState1 = "YELLOW"
  /\ currentState2 = "GREEN"


\* C6 as stated: in EMERGENCY mode, outside the diagnostic routine, no
\* YELLOW or GREEN output of either light is lit.
C6_EmergencyNoYellowGreen ==
  (currentMode = "EMERGENCY" /\ testStep = 0) =>
    \A p \in {YELLOW_PIN_1, GREEN_PIN_1, YELLOW_PIN_2, GREEN_PIN_2} : ~pins[p]

\* C7 as stated: in every EMERGENCY state outside the diagnostic routine
\* the RED outputs of the two lights are equal (they blink in lock-step).
C7_EmergencyLockStep ==
  (currentMode = "EMERGENCY" /\ testStep = 0) =>
    pins[RED_PIN_1] = pins[RED_PIN_2]

\* C8: an iteration of loop() that reads a line outside the grammar, or an
\* empty line, ends in the state an iteration without input ends in: the
\* globals and the outputs are not changed by the line (nothing at all
\* changes when no time has passed); an unknown line prints the notice
\* with the upper-cased line, an empty line prints nothing; loop() goes on.
Notice(command) ==
  IF Len(command) < 1 THEN <<>>
  ELSE <<"Error: Unknown command: ">> \o command \o
       <<"Valid commands: A, M, E, R1/Y1/G1, R2/Y2/G2, T, OFF, STATUS">>
Globals ==
  <<currentMode, currentState1, currentState2, previousState,
    lastStateChange, currentStateDuration, emergencyBlinkState, pins>>

C8_BadInputIgnored ==
  [][ (lastCommand' \notin Grammar \cup {NoCommand}) =>
        \E idle \in {loopTiming(Dev, now')} :
        /\ currentMode' = idle.currentMode
        /\ currentState1' = idle.currentState1
        /\ currentState2' = idle.currentState2
        /\ previousState' = idle.previousState
        /\ lastStateChange' = idle.lastStateChange
        /\ currentStateDuration' = idle.currentStateDuration
        /\ emergencyBlinkState' = idle.emergencyBlinkState
        /\ pins' = idle.pins
        /\ out' = Notice(lastCommand') \o idle.out
        /\ now' = now => UNCHANGED Globals
        /\ testStep' = 0
    ]_vars

\* an unknown line was read in AUTO while light 1 was YELLOW
C8_Witness ==
  /\ testStep = 0
  /\ lastCommand = <<"G", "3">>
  /\ out = Notice(lastCommand)
  /\ currentMode = "AUTO"
  /\ currentState1 = "YELLOW"

\* C9: in MANUAL mode an iteration of loop() without input changes neither
\* the mode, nor a recorded light state, nor an output, however much time
\* has passed.
C9_ManualNoAutonomous ==
  [][ (currentMode = "MANUAL" /\ \E d \in Ticks : LoopIdle(d)) =>
        UNCHANGED <<currentMode, currentState1, currentState2, pins>> ]_vars

\* MANUAL with light 1 GREEN, idle for longer than any configured duration
C9_Witness ==
  /\ currentMode = "MANUAL"
  /\ testStep = 0
  /\ out = <<>>
  /\ Elapsed > GREEN_DURATION + YELLOW_DURATION
  /\ currentState1 = "GREEN"
  /\ pins[GREEN_PIN_1]

\* C10: an iteration of loop() that reads A ends in AUTO with light 1 RED
\* and light 2 GREEN (recorded and shown), the cycle timer restarted at
\* the current time and the active duration RED_DURATION.
C10_AutoCommand ==
  [][ lastCommand' = CMD_A =>
        /\ currentMode' = "AUTO"
        /\ currentState1' = "RED"
        /\ currentState2' = "GREEN"
        /\ pins' = [p \in Pins |-> p \in {RED_PIN_1, GREEN_PIN_2}]
        /\ lastStateChange' = now'
        /\ currentStateDuration' = RED_DURATION
    ]_vars

\* A was read after light 1 had turned YELLOW (active duration 2000 ms)
C10_Witness ==
  /\ lastCommand = CMD_A
  /\ previousState = "GREEN"
  /\ currentMode = "AUTO"
  /\ currentStateDuration = RED_DURATION
  /\ Elapsed = 0

\* C11: an iteration of loop() that reads M ends in MANUAL with both
\* recorded light states and all six outputs as they were before it,
\* whichever mode it started in.
C11_ManualCommand ==
  [][ lastCommand' = CMD_M =>
        /\ currentMode' = "MANUAL"
        /\ UNCHANGED <<currentState1, currentState2, pins>>
    ]_vars

\* M was read in EMERGENCY while both red LEDs of the blink were lit
C11_Witness ==
  /\ lastCommand = CMD_M
  /\ currentMode = "MANUAL"
  /\ emergencyBlinkState
  /\ pins[RED_PIN_1]
  /\ pins[RED_PIN_2]

\* C12: an iteration of loop() that reads OFF ends in MANUAL with both
\* recorded light states OFF and all six outputs off, and an iteration
\* without input that starts in that state ends in it.
AllOff ==
  /\ currentMode = "MANUAL"
  /\ currentState1 = "OFF"
  /\ currentState2 = "OFF"
  /\ \A p \in Pins : ~pins[p]

C12_OffCommand ==
  [][ /\ lastCommand' = CMD_OFF => AllOff'
      /\ (AllOff /\ testStep = 0 /\ lastCommand' = NoCommand) => AllOff'
    ]_vars

\* OFF, the only command read, was read in AUTO while light 1 was GREEN;
\* the lights have been off for a whole GREEN_DURATION since
C12_Witness ==
  /\ AllOff
  /\ ncmd = 1
  /\ lastCommand = NoCommand
  /\ currentStateDuration = GREEN_DURATION
  /\ Elapsed >= GREEN_DURATION

\* C13: an iteration of loop() that reads STATUS prints the mode and both
\* recorded colours, and the remaining time exactly when the mode is
\* AUTO, and otherwise ends in the state an iteration without input ends
\* in: mode, light states, outputs, cycle timer, duration and blink phase
\* are not changed by STATUS (nothing changes when no time has passed).
ModeText(mode) ==
  CASE mode = "MANUAL" -> "MANUAL"
    [] mode = "AUTO" -> "AUTOMATIC"
    [] mode = "EMERGENCY" -> "EMERGENCY"

C13_StatusReadOnly ==
  [][ lastCommand' = CMD_STATUS =>
        \E idle \in {loopTiming(Dev, now')} :
        LET report == SubSeq(out', 1, Len(out') - Len(idle.out)) IN
        /\ currentMode' = idle.currentMode
        /\ currentState1' = idle.currentState1
        /\ currentState2' = idle.currentState2
        /\ previousState' = idle.previousState
        /\ lastStateChange' = idle.lastStateChange
        /\ currentStateDuration' = idle.currentStateDuration
        /\ emergencyBlinkState' = idle.emergencyBlinkState
        /\ pins' = idle.pins
        /\ now' = now => UNCHANGED Globals
        /\ out' = report \o idle.out
        /\ SubSeq(report, 1, 8) =
             <<"", "=== CURRENT STATUS ===", "Mode: ", ModeText(currentMode),
               "Light 1: ", currentState1, "Light 2: ", currentState2>>
        /\ (\E i \in 1..Len(report) : report[i] = "Time remaining: ")
             <=> currentMode = "AUTO"
    ]_vars

\* STATUS was read in AUTO with light 1 GREEN in the iteration in which
\* GREEN expired: the report is followed by the lines of the advance
C13_Witness ==
  /\ lastCommand = CMD_STATUS
  /\ currentMode = "AUTO"
  /\ currentState1 = "YELLOW"
  /\ Elapsed = 0
  /\ Len(out) > 8
  /\ out[4] = "AUTOMATIC"
  /\ out[6] = "GREEN"
  /\ Printed("AUTO: Light 1 changed to YELLOW")

\* C14: an iteration of loop() that reads a command of the grammar in
\* lower, upper or mixed case ends in the state, and prints the output,
\* that the upper-case spelling of the command gives from the same state.
SameSpelling(a, b) ==
  /\ Len(a) = Len(b)
  /\ \A i \in 1..Len(a) :
       \/ a[i] = b[i]
       \/ \E k \in 1..Len(LowerChars) : {a[i], b[i]} = {LowerChars[k], UpperChars[k]}
SpelledCommands ==
  [l \in {trim(raw) : raw \in Lines \cup Spellings} \cup {NoCommand} |->
     {g \in Grammar : SameSpelling(l, g)}]

C14_CaseInsensitive ==
  [][ \A g \in SpelledCommands[lastLine'] :
        /\ lastCommand' = g
        /\ IF g = CMD_T
           THEN /\ testStep' = 1
                /\ beforeTest' = <<currentMode, currentState1, currentState2>>
                /\ out' = <<"", "=== RUNNING TEST SEQUENCE ===", TestText(1)>>
                /\ pins' = [pins EXCEPT ![RED_PIN_1] = TRUE,
                                        ![YELLOW_PIN_1] = FALSE,
                                        ![GREEN_PIN_1] = FALSE]
                /\ UNCHANGED <<currentMode, currentState1, currentState2,
                               previousState, lastStateChange,
                               currentStateDuration, emergencyBlinkState>>
           ELSE \E upper \in {loopTiming(processCommand(Dev, g, now'), now')} :
                /\ currentMode' = upper.currentMode
                /\ currentState1' = upper.currentState1
                /\ currentState2' = upper.currentState2
                /\ previousState' = upper.previousState
                /\ lastStateChange' = upper.lastStateChange
                /\ currentStateDuration' = upper.currentStateDuration
                /\ emergencyBlinkState' = upper.emergencyBlinkState
                /\ pins' = upper.pins
                /\ out' = upper.out
                /\ testStep' = 0
    ]_vars

\* "StatuS" was read in EMERGENCY and answered with the status report
C14_Witness ==
  /\ lastLine = <<"S","t","a","t","u","S">>
  /\ lastCommand = CMD_STATUS
  /\ currentMode = "EMERGENCY"
  /\ Len(out) >= 4
  /\ out[2] = "=== CURRENT STATUS ==="
  /\ out[4] = "EMERGENCY"

\* C15: the device starts in AUTO with light 1 RED and light 2 GREEN, and
\* when no line ever arrives and loop() keeps running while time passes,
\* light 1 is RED, GREEN and YELLOW again and again and light 2 is GREEN
\* again and again (recorded and shown), for ever.
Lit(lightNumber, state) ==
  /\ (IF lightNumber = 1 THEN currentState1 ELSE currentState2) = state
  /\ Shows(lightNumber, state)

C15_AutoCycleForever ==
  /\ currentMode = "AUTO" /\ Lit(1, "RED") /\ Lit(2, "GREEN")
  /\ [](currentMode = "AUTO")
  /\ []<>Lit(1, "RED")
  /\ []<>Lit(1, "GREEN")
  /\ []<>Lit(1, "YELLOW")
  /\ []<>Lit(2, "GREEN")

\* no line was ever read; light 1 is GREEN and millis() has wrapped since
\* it turned GREEN
C15_Witness ==
  /\ ncmd = 0
  /\ currentMode = "AUTO"
  /\ Lit(1, "GREEN")
  /\ Lit(2, "RED")
  /\ now < lastStateChange

\* C16: for a diagnostic routine run in AUTO: (1) no step that leaves the
\* routine running changes the mode, a recorded colour, the cycle timer or
\* the active duration; (2) the step that completes it restores the
\* recorded colours, shows them, and restarts the cycle timer at the
\* completion time with the duration configured for the restored colour;
\* (3) a timer-driven transition of AUTO happens only when the time since
\* the cycle timer was restarted equals the duration configured for the
\* colour that ends: the restored colour is held for its whole duration.
DurationOf(state) ==
  CASE state = "RED" -> RED_DURATION
    [] state = "GREEN" -> GREEN_DURATION
    [] state = "YELLOW" -> YELLOW_DURATION
    [] OTHER -> 0

C16_TestRestartsTimer ==
  [][ /\ (currentMode = "AUTO" /\ testStep' # 0) =>
           UNCHANGED <<currentMode, currentState1, currentState2,
                       lastStateChange, currentStateDuration>>
      /\ (currentMode = "AUTO" /\ testStep = LastStep /\ testStep' = 0) =>
           /\ <<currentMode', currentState1', currentState2'>> = beforeTest
           /\ Shows(1, currentState1)' /\ Shows(2, currentState2)'
           /\ lastStateChange' = now'
           /\ currentStateDuration' = DurationOf(currentState1')
      /\ (/\ currentMode = "AUTO" /\ currentMode' = "AUTO"
          /\ testStep = 0 /\ testStep' = 0
          /\ lastCommand' # CMD_A
          /\ currentState1' # currentState1) =>
           UnsignedSub(now', lastStateChange) = DurationOf(currentState1)
    ]_vars

\* AUTO, one line read: T, 2000 ms after reset with light 1 RED; the
\* routine has completed, RED has been held for RED_DURATION more and
\* light 1 has just turned GREEN
C16_Witness ==
  /\ currentMode = "AUTO"
  /\ testStep = 0
  /\ ncmd = 1
  /\ uptime = 2000 + (ColourSteps * TEST_COLOUR_DELAY + TEST_OFF_DELAY
                       + 2 * TEST_BLINKS * TEST_BLINK_DELAY)
                   + RED_DURATION
  /\ currentState1 = "GREEN"
  /\ previousState = "RED"
  /\ Elapsed = 0

\* C17 as stated: a line that arrived while the diagnostic routine was
\* running is dropped: when loop() runs again with such a line received,
\* no line is passed to processCommand.
C17_DroppedNotQueued ==
  [][ (testStep = 0 /\ Serial_available(rx) > 0) => lastCommand' = NoCommand ]_vars

\* C17, amended: a line that arrives while the diagnostic routine is
\* running is stored in the receive buffer; no step of the routine, its
\* completion included, reads or removes a stored line or passes a line
\* to processCommand; the first iteration of loop() after the routine
\* takes the oldest stored line out of the buffer and processes it.
C17_BufferedUntilTestCompletes ==
  [][ /\ (testStep # 0 /\ ncmd' = ncmd + 1) =>
           /\ Len(rx') = Len(rx) + 1
           /\ SubSeq(rx', 1, Len(rx)) = rx
           /\ testStep' = testStep
      /\ (testStep # 0 /\ ncmd' = ncmd) =>
           /\ rx' = rx
           /\ lastCommand' = (IF testStep' = 0 THEN NoCommand ELSE CMD_T)
      /\ (testStep = 0 /\ Serial_available(rx) > 0) =>
           /\ rx' = Tail(rx)
           /\ lastLine' = TrimOf[Head(rx)]
           /\ lastCommand' = UpperOf[TrimOf[Head(rx)]]
           /\ ncmd' = ncmd
    ]_vars

\* T was read in AUTO and G2 arrived during the routine; the routine has
\* just completed and G2 is waiting in the receive buffer
C17_Witness ==
  /\ testStep = 0
  /\ rx = <<CMD_G2>>
  /\ currentMode = "AUTO"
  /\ Printed("Restored mode: ")
  /\ Elapsed = 0

\* C18: once T is read, in any mode, (1) every step of the routine moves
\* it to its next step, passes no line to processCommand and changes
\* neither the mode, nor a recorded light state, nor the cycle timer, the
\* active duration or the blink phase (no timer-driven transition);
\* (2) the routine completes after its last step and restores the mode
\* and the recorded light states; (3) a started routine always completes;
\* (4) once it has completed, loop() reads the next line.
C18_TestRunsToCompletion ==
  /\ [][ /\ (testStep # 0 /\ testStep' # testStep) =>
              testStep' = (IF testStep = LastStep THEN 0 ELSE testStep + 1)
         /\ (testStep # 0 /\ testStep' # 0) =>
              /\ lastCommand' = CMD_T
              /\ rx' = rx \/ Len(rx') = Len(rx) + 1
              /\ UNCHANGED <<currentMode, currentState1, currentState2,
                             lastStateChange, currentStateDuration,
                             emergencyBlinkState>>
         /\ (testStep # 0 /\ testStep' = 0) =>
              <<currentMode', currentState1', currentState2'>> = beforeTest
     ]_vars
  /\ (testStep # 0) ~> (testStep = 0)
  /\ []((testStep = 0 /\ Serial_available(rx) > 0) =>
          ENABLED LoopCommand(Head(rx), 0))

\* T was read in EMERGENCY while the red LEDs of the blink were lit; the
\* routine has just completed and EMERGENCY is restored
C18_Witness ==
  /\ testStep = 0
  /\ ncmd = 2
  /\ currentMode = "EMERGENCY"
  /\ emergencyBlinkState
  /\ Printed("=== TEST COMPLETE ===")
  /\ Printed("EMERGENCY")

\* C19: in an iteration of loop() without input, the AUTO check advances
\* the lights exactly when the time that has really passed since the
\* cycle timer was set (counted without wrapping) has reached the active
\* duration, and the EMERGENCY check toggles the blink exactly when it has
\* reached EMERGENCY_BLINK, also when millis() has wrapped in between.
\* at `time` (ms since reset, not wrapped)
TrueElapsed(time) == time - changedAt

C19_WrapSafeTiming ==
  [][ (testStep = 0 /\ testStep' = 0 /\ lastCommand' = NoCommand) =>
        /\ currentMode = "AUTO" =>
             /\ (currentState1' # currentState1) <=>
                  (TrueElapsed(uptime') >= currentStateDuration)
             /\ (TrueElapsed(uptime') >= currentStateDuration) =>
                  /\ lastStateChange' = now'
                  /\ TrueElapsed(uptime') = currentStateDuration
        /\ currentMode = "EMERGENCY" =>
             /\ (emergencyBlinkState' # emergencyBlinkState) <=>
                  (TrueElapsed(uptime') >= EMERGENCY_BLINK)
             /\ (TrueElapsed(uptime') >= EMERGENCY_BLINK) =>
                  /\ lastStateChange' = now'
                  /\ TrueElapsed(uptime') = EMERGENCY_BLINK
    ]_vars

\* light 1 has just turned YELLOW: it turned GREEN before millis() wrapped
\* and its GREEN_DURATION ended after the wrap
C19_Witness ==
  /\ currentMode = "AUTO"
  /\ testStep = 0
  /\ currentState1 = "YELLOW"
  /\ previousState = "GREEN"
  /\ lastStateChange = now
  /\ changedAt = uptime
  /\ uptime >= MillisMod
  /\ uptime - GREEN_DURATION < MillisMod

\* C20: an iteration of loop() that starts in AUTO with the active
\* duration already over and reads M, E, OFF or a per-light command ends
\* outside AUTO with no AUTO transition applied: light 1 is not advanced,
\* a per-light command leaves its colour recorded and shown on its light
\* and the other light as it was; and later iterations without input,
\* while the mode is not AUTO, change no recorded colour.
LeavingAuto == {CMD_M, CMD_E, CMD_OFF} \cup PerLightCommands
AdvanceNotices ==
  {"AUTO: Light 1 changed to YELLOW", "AUTO: Light 1 changed to RED",
   "AUTO: Light 1 changed to GREEN"}

C20_CommandBeforeTiming ==
  [][ /\ (/\ currentMode = "AUTO"
          /\ testStep = 0
          /\ lastCommand' \in LeavingAuto
          /\ UnsignedSub(now', lastStateChange) >= currentStateDuration) =>
           /\ currentMode' # "AUTO"
           /\ previousState' = previousState
           /\ currentStateDuration' = currentStateDuration
           /\ \A i \in 1..Len(out') : out'[i] \notin AdvanceNotices
           /\ lastCommand' \in {CMD_M, CMD_E} =>
                UNCHANGED <<currentState1, currentState2>>
           /\ lastCommand' = CMD_M => UNCHANGED pins
           /\ lastCommand' \in PerLightCommands =>
                LET light == RequestedLight(lastCommand')
                    colour == RequestedColour(lastCommand')
                IN /\ currentMode' = "MANUAL"
                   /\ \A p \in LightPins(light) :
                        pins'[p] <=> p \in PinsOf(light, colour)
                   /\ IF light = 1
                      THEN currentState1' = colour /\ UNCHANGED currentState2
                      ELSE currentState2' = colour /\ UNCHANGED currentState1
                   /\ \A p \in LightPins(3 - light) : pins'[p] = pins[p]
      /\ (/\ currentMode # "AUTO"
          /\ testStep = 0
          /\ lastCommand' = NoCommand) =>
           /\ currentMode' = currentMode
           /\ UNCHANGED <<currentState1, currentState2, previousState,
                          currentStateDuration>>
           /\ currentMode = "MANUAL" => UNCHANGED pins
    ]_vars

\* Y1, the only line read, was read in AUTO in the iteration in which the
\* RED of light 1 was over: MANUAL, light 1 YELLOW, light 2 still GREEN
C20_Witness ==
  /\ lastCommand = CMD_Y1
  /\ ncmd = 1
  /\ currentMode = "MANUAL"
  /\ currentState1 = "YELLOW"
  /\ Shows(1, "YELLOW")
  /\ Shows(2, "GREEN")
  /\ previousState = "OFF"
  /\ TrueElapsed(uptime) = RED_DURATION

\* C21: outside the diagnostic routine, in MANUAL and in AUTO, each light
\* shows its recorded state: exactly the LED of the recorded colour is
\* lit, and none when the recorded state is OFF.
C21_OutputsMatchRecorded ==
  (testStep = 0 /\ currentMode \in {"MANUAL", "AUTO"}) =>
    /\ Shows(1, currentState1)
    /\ Shows(2, currentState2)

\* C22: outside the diagnostic routine, in every mode, each light has at
\* most one of its three LEDs lit.
C22_AtMostOneLedPerLight ==
  testStep = 0 =>
    \A lightNumber \in {1, 2} :
      Cardinality({p \in LightPins(lightNumber) : pins[p]}) <= 1

\* C23: whenever the mode is AUTO, the diagnostic routine included, the
\* recorded state of light 1 is not OFF and the active duration is the
\* one configured for the recorded colour of light 1.
C23_AutoDurationMatchesColour ==
  currentMode = "AUTO" =>
    /\ currentState1 # "OFF"
    /\ currentStateDuration = DurationOf(currentState1)

\* AUTO with light 1 YELLOW and the duration of YELLOW, just restored by
\* a diagnostic routine that was started while light 1 was YELLOW
C23_Witness ==
  /\ currentMode = "AUTO"
  /\ testStep = 0
  /\ currentState1 = "YELLOW"
  /\ currentStateDuration = YELLOW_DURATION
  /\ Printed("Restored mode: ")
  /\ Elapsed = 0

\* C24: when an iteration of loop() that starts in AUTO reads STATUS, the
\* time elapsed in the current colour is at most the active duration when
\* STATUS is processed, and the remaining time reported is a number of
\* seconds between 0 and the active duration.
C24_RemainingTimeInRange ==
  [][ (currentMode = "AUTO" /\ testStep = 0 /\ lastCommand' = CMD_STATUS) =>
        /\ UnsignedSub(now', lastStateChange) <= currentStateDuration
        /\ Len(out') >= 10
        /\ out'[9] = "Time remaining: "
        /\ out'[10] \in {ToString(k) : k \in 0..(currentStateDuration \div 1000)}
    ]_vars

====
